---- MODULE Spec2Model ----
(***************************************************************************)
(* FacPark: the hybrid retrieval and grounding engine (backend/core/rag.py *)
(* as documented in the technical explanation), the agent's no-context     *)
(* gate, the chunker, the index store with the build and the load of the  *)
(* index bundle, the triggers and the foreign keys of the database schema   *)
(* (data/sql/01_schema.sql), and the web client: the routes of App.jsx     *)
(* with ProtectedRoute, AuthContext, the interceptors of api and            *)
(* ChatInterface.                                                          *)
(***************************************************************************)
EXTENDS Integers, Sequences, FiniteSets, TLC

VARIABLES
    phase,        \* position of the query pipeline
    dense,        \* ranked list of the dense (FAISS) path: <<[chunk_id, raw_score]>>
    sparse,       \* ranked list of the sparse (BM25) path
    k_final,      \* number of fused results asked for
    fused,        \* list of FusedResult returned by retrieve_hybrid
    error,        \* "none" or the error surfaced to the caller
    threshold,    \* relevance_threshold handed to ground
    ctx,          \* ground's result {context_found, context_block, citation_map}
    llm_calls,    \* generative calls made for the current query
    answer,       \* what the agent answered
    text,         \* chunker: the document text
    chunk_size,   \* chunker: window size
    overlap,      \* chunker: overlap of consecutive windows
    chunks,       \* chunker: chunks produced so far
    cpc,          \* chunker: "idle", "done" or "failed" (IngestionError)
    corpus,       \* index build: the chunk ids of the corpus, in build order
    bpc,          \* index build: position of build_index
    build_error,  \* index build: "none", "IndexBuildError" or "EmbeddingError"
    built,        \* index build: the bundle held in memory by the build
    staged,       \* index store: the files of the temporary location
    disk,         \* index store: the files of data/faiss_index/
    tampered,     \* index store: the files were damaged after their publication
    loaded,       \* engine: a bundle is loaded and served
    load_error,   \* engine: "none" or "IndexLoadError"
    current,      \* engine: the bundle the engine's reference points to
    q_pc,         \* query: position of the in-flight query
    q_bundle,     \* query: the bundle reference taken when the query started
    q_read,       \* query: what the query has read of each artifact
    q_error,      \* query: "none" or the error surfaced to the caller
    vehicles,          \* table vehicles: rows [user_id, plate]
    subscriptions,     \* table subscriptions: rows [id, user_id, is_active]
    slots,             \* table slots: is_available of every slot
    slot_assignments,  \* rows [id, user_id, slot_id, is_active, released]
    db_last,           \* the last statement and its outcome
    sess,              \* the sessions that insert vehicles concurrently
    users,             \* table users: the ids of the rows
    localStorage,  \* browser: access_token, refresh_token, user, chat histories
    server,        \* backend: the tokens issued and the ones still accepted
    user,          \* AuthContext: the user state, <<>> for null
    loading,       \* AuthContext: the loading state
    location,      \* BrowserRouter: the path of the current location
    requests,      \* api: the requests in flight and where each one stands
    storageKey,    \* ChatInterface: the storageKey state
    messages,      \* ChatInterface: the messages state
    chat_pending   \* ChatInterface: the /chat/message calls awaiting a reply

ragVars == <<phase, dense, sparse, k_final, fused, error, threshold, ctx,
             llm_calls, answer>>
chunkVars == <<text, chunk_size, overlap, chunks, cpc>>
buildVars == <<corpus, bpc, build_error, built, staged>>
serveVars == <<tampered, loaded, load_error, current, q_pc, q_bundle, q_read,
               q_error>>
storeVars == <<buildVars, disk, serveVars>>
dbVars == <<vehicles, subscriptions, slots, slot_assignments, db_last,
            sess, users>>
authVars == <<user, loading>>
chatVars == <<storageKey, messages, chat_pending>>
feVars == <<localStorage, server, authVars, location, requests, chatVars>>
restVars == <<storeVars, dbVars, feVars>>
vars == <<ragVars, chunkVars, restVars>>

----------------------------------------------------------------------------
(* Bounds of the model *)

\* chunks in the loaded index
NChunks == 3
\* longest ranked list a path returns (k_dense = k_sparse)
KPath == 2
\* raw scores of a path are 0..MaxRaw, in units of 0.5
MaxRaw == 1
\* longest document text handed to the chunker
MaxTextLen == 5
\* largest chunk_size configured
MaxChunkSize == 3
\* most chunks of a corpus, and the chunk ids a corpus draws from
MaxCorpus == 2
\* components of an embedding vector
Dim == 2
\* rows of users
MaxUsers == 2
\* licence plates that exist
MaxPlates == 4
\* rows of slots
MaxSlots == 2
\* ids of subscriptions and of slot_assignments
MaxRows == 3
\* token pairs the server issues
MaxTokens == 3
\* messages a chat history holds
MaxMessages == 3

(* Program constants *)

\* RRF(d) = sum 1 / (k + rank_i(d)), k = 60
RRF_k == 60
\* trg_vehicles_max_3: IF vehicle_count >= 3
MAX_VEHICLES == 3

ChunkIds == 1..NChunks
RawScores == 0..MaxRaw

Min(a, b) == IF a <= b THEN a ELSE b
Max(a, b) == IF a >= b THEN a ELSE b

----------------------------------------------------------------------------
(* Exact rationals: fused scores are sums of unit fractions *)

Frac(n, d) == [num |-> n, den |-> d]
FracAdd(a, b) == Frac(a.num * b.den + b.num * a.den, a.den * b.den)
FracLess(a, b) == a.num * b.den < b.num * a.den
FracEq(a, b) == a.num * b.den = b.num * a.den

----------------------------------------------------------------------------
(* The ranked lists a path can return: distinct chunks, at most KPath of   *)
(* them, raw scores non-increasing (rank 1 = most relevant in that path).  *)

IsRanked(l) ==
    /\ \A i, j \in 1..Len(l) : i # j => l[i].chunk_id # l[j].chunk_id
    /\ \A i \in 1..Len(l) - 1 : l[i].raw_score >= l[i + 1].raw_score

RetrievalResult == [chunk_id : ChunkIds, raw_score : RawScores]

RankedLists ==
    UNION {{l \in [1..n -> RetrievalResult] : IsRanked(l)} : n \in 0..KPath}

----------------------------------------------------------------------------
(* retrieve_hybrid, step 4: RRF fusion.  Candidates are kept in insertion  *)
(* order, as a dict filled from the dense list and then the sparse list.   *)

IndexOf(cands, c) ==
    IF \E i \in 1..Len(cands) : cands[i].chunk_id = c
    THEN CHOOSE i \in 1..Len(cands) : cands[i].chunk_id = c
    ELSE 0

\* the contribution of one path that ranked the chunk at `rank` (from 1)
\* fault variant: ranks counted from 0
RRFTermRankZero(rank) == Frac(1, RRF_k + rank - 1)
RRFTerm(rank) == Frac(1, RRF_k + rank)

\* one step of "scores[chunk] = scores.get(chunk, 0) + 1 / (k + rank)"
\* fault variant: raw scores blended instead of ranks
AddRankedByRawScore(cands, entry, rank) ==
    LET i == IndexOf(cands, entry.chunk_id) IN
    IF i = 0
    THEN Append(cands, [chunk_id    |-> entry.chunk_id,
                        fused_score |-> Frac(entry.raw_score, 1),
                        rank_sum    |-> rank,
                        relevance   |-> entry.raw_score])
    ELSE [cands EXCEPT
            ![i].fused_score = FracAdd(@, Frac(entry.raw_score, 1)),
            ![i].rank_sum = @ + rank,
            ![i].relevance = Max(@, entry.raw_score)]
AddRanked(cands, entry, rank) ==
    LET i == IndexOf(cands, entry.chunk_id) IN
    IF i = 0
    THEN Append(cands, [chunk_id    |-> entry.chunk_id,
                        fused_score |-> RRFTerm(rank),
                        rank_sum    |-> rank,
                        relevance   |-> entry.raw_score])
    ELSE [cands EXCEPT
            ![i].fused_score = FracAdd(@, RRFTerm(rank)),
            ![i].rank_sum = @ + rank,
            ![i].relevance = Max(@, entry.raw_score)]

RECURSIVE AddPath(_, _, _)
AddPath(cands, list, rank) ==
    IF rank > Len(list) THEN cands
    ELSE AddPath(AddRanked(cands, list[rank], rank), list, rank + 1)

RRFFusion(d, s) == AddPath(AddPath(<<>>, d, 1), s, 1)

----------------------------------------------------------------------------
(* retrieve_hybrid, step 5: sort by fused score, descending; ties by the   *)
(* lower sum of ranks, then by chunk_id.                                   *)

\* results are ordered by RRF score, best first
\* fault variant: worst score first
ScoreAscending(a, b) == FracLess(a.fused_score, b.fused_score)
ScoreBefore(a, b) == FracLess(b.fused_score, a.fused_score)

\* equal scores: the lower sum of individual ranks, then the chunk_id
\* fault variant: equal scores left in insertion order
TieBreakNone(a, b) == FALSE
TieBreak(a, b) ==
    \/ a.rank_sum < b.rank_sum
    \/ a.rank_sum = b.rank_sum /\ a.chunk_id < b.chunk_id

Before(a, b) ==
    \/ ScoreBefore(a, b)
    \/ FracEq(a.fused_score, b.fused_score) /\ TieBreak(a, b)

\* stable insertion of x into the sorted sequence s
RECURSIVE Insert(_, _)
Insert(s, x) ==
    IF s = <<>> THEN <<x>>
    ELSE IF Before(x, Head(s)) THEN <<x>> \o s
    ELSE <<Head(s)>> \o Insert(Tail(s), x)

RECURSIVE SortFused(_)
SortFused(cands) ==
    IF cands = <<>> THEN <<>>
    ELSE Insert(SortFused(SubSeq(cands, 1, Len(cands) - 1)), cands[Len(cands)])

\* fault variant: one result too few
TruncateOneShort(s, k) == SubSeq(s, 1, Min(k, Len(s)) - 1)
Truncate(s, k) == SubSeq(s, 1, Min(k, Len(s)))

FusedResults(s) ==
    [i \in 1..Len(s) |-> [chunk_id    |-> s[i].chunk_id,
                          fused_score |-> s[i].fused_score,
                          fused_rank  |-> i,
                          relevance   |-> s[i].relevance]]

retrieve_hybrid(d, s, k) == FusedResults(Truncate(SortFused(RRFFusion(d, s)), k))

----------------------------------------------------------------------------
(* The chunk and metadata tables of the loaded index bundle *)

Metadata(c) == [label |-> "Reglement parking", page |-> (c + 1) \div 2]
ChunkTextOf(c) == "chunk " \o ToString(c)

\* "<document label> (page <p>)"
SourceRef(c) ==
    Metadata(c).label \o " (page " \o ToString(Metadata(c).page) \o ")"

----------------------------------------------------------------------------
(* format_context_with_citations: one tagged excerpt per retained chunk,   *)
(* in fused order, and the mapping from tag to source reference.           *)

\* fault variant: tags numbered from 0
CitationTagFromZero(n) == "[[CIT_" \o ToString(n - 1) \o "]]"
CitationTag(n) == "[[CIT_" \o ToString(n) \o "]]"

ContextBlock(results) ==
    [n \in 1..Len(results) |->
        [tag    |-> CitationTag(n),
         text   |-> ChunkTextOf(results[n].chunk_id),
         source |-> SourceRef(results[n].chunk_id)]]

CitationMapping(results) ==
    LET block == ContextBlock(results) IN
    [t \in {block[n].tag : n \in 1..Len(block)} |->
        LET n == CHOOSE m \in 1..Len(block) : block[m].tag = t
        IN block[n].source]

EmptyMap == [t \in {} |-> ""]

NoContext ==
    [context_found |-> FALSE, context_block |-> <<>>, citation_map |-> EmptyMap]

----------------------------------------------------------------------------
(* ground: the anti-hallucination gate *)

\* the best raw relevance among the fused results (0 when there are none)
RECURSIVE MaxRelevance(_)
MaxRelevance(results) ==
    IF results = <<>> THEN 0
    ELSE Max(results[1].relevance, MaxRelevance(Tail(results)))

\* no candidate at all: nothing to ground on
\* fault variant: no early return on an empty list
IsEmptyResultNever(results) == FALSE
IsEmptyResult(results) == results = <<>>

\* "if max_similarity < threshold: context_found = False"
\* fault variant: comparison inverted
BelowThresholdInverted(results, t) == MaxRelevance(results) > t
BelowThreshold(results, t) == MaxRelevance(results) < t

ground(results, t) ==
    IF IsEmptyResult(results) THEN NoContext
    ELSE IF BelowThreshold(results, t) THEN NoContext
    ELSE [context_found |-> TRUE,
          context_block |-> ContextBlock(results),
          citation_map  |-> CitationMapping(results)]

----------------------------------------------------------------------------
(* process_message: the agent never calls the LLM without context *)

NotFoundMessage == "Je ne trouve pas cette information dans le reglement."

\* fault variant: gate not consulted
MayGenerateAlways(c) == TRUE
MayGenerate(c) == c.context_found

----------------------------------------------------------------------------
(* Chunker: overlapping fixed-size windows over the extracted text.        *)
(* Offsets count characters from 0; a chunk covers [start, end).           *)

Chars == {"a", "."}
Texts == UNION {[1..n -> Chars] : n \in 0..MaxTextLen}

\* a window that is not the last one ends at a sentence boundary when one
\* falls within its last `overlap` characters (best effort)
WindowEnd(txt, size, ov, st) ==
    LET hard == Min(st + size, Len(txt))
        cuts == {p \in (hard - ov + 1)..hard : p > st /\ txt[p] = "."}
    IN  IF hard < Len(txt) /\ cuts # {}
        THEN CHOOSE p \in cuts : \A q \in cuts : q <= p
        ELSE hard

\* windows advance by chunk_size - overlap
\* fault variant: overlap ignored when advancing
AdvanceBySize(size, ov) == size
Advance(size, ov) == size - ov

RECURSIVE ChunkFrom(_, _, _, _)
ChunkFrom(txt, size, ov, st) ==
    IF st >= Len(txt) THEN <<>>
    ELSE LET end == WindowEnd(txt, size, ov, st) IN
         <<[text              |-> SubSeq(txt, st + 1, end),
            char_offset_start |-> st,
            char_offset_end   |-> end]>>
         \o ChunkFrom(txt, size, ov, st + Advance(size, ov))

chunk_text(txt, size, ov) == ChunkFrom(txt, size, ov, 0)

----------------------------------------------------------------------------
(* The index bundle: what build_index builds from the chunks of a corpus *)

CorpusIds == 1..MaxCorpus

\* the chunk sets a build can be given: chunk ids in build order, none twice
Corpora ==
    {c \in UNION {[1..n -> CorpusIds] : n \in 0..MaxCorpus} :
        \A i, j \in 1..Len(c) : c[i] = c[j] => i = j}

\* the fixed embedding function: one vector of Dim components per chunk
Embed(c) == [j \in 1..Dim |-> c * j]

\* number of tokens of a chunk, as the BM25 tokenizer counts them
DocLen(c) == 1 + c

RECURSIVE SumSeq(_)
SumSeq(s) == IF s = <<>> THEN 0 ELSE Head(s) + SumSeq(Tail(s))

ChunkRow(c) == [chunk_id |-> c, text |-> ChunkTextOf(c)]

\* the corpus statistics BM25 scores with
BM25Stats(lens) ==
    [doc_len |-> lens, corpus_size |-> Len(lens), total_len |-> SumSeq(lens)]

\* the four artifacts, all in the order of the chunks
BuildBundle(c) ==
    [chunks   |-> [i \in 1..Len(c) |-> ChunkRow(c[i])],
     metadata |-> [i \in 1..Len(c) |-> Metadata(c[i])],
     vectors  |-> [i \in 1..Len(c) |-> Embed(c[i])],
     bm25     |-> BM25Stats([i \in 1..Len(c) |-> DocLen(c[i])])]

NoBundle == BuildBundle(<<>>)

\* position i of every artifact describes the chunk of row i
Consistent(b) ==
    /\ Len(b.vectors) = Len(b.chunks)
    /\ Len(b.bm25.doc_len) = Len(b.chunks)
    /\ b.bm25.corpus_size = Len(b.chunks)
    /\ Len(b.metadata) = Len(b.chunks)
    /\ \A i \in 1..Len(b.chunks) :
          /\ b.vectors[i] = Embed(b.chunks[i].chunk_id)
          /\ b.bm25.doc_len[i] = DocLen(b.chunks[i].chunk_id)
          /\ b.metadata[i] = Metadata(b.chunks[i].chunk_id)

----------------------------------------------------------------------------
(* The index store: save and load of the files of data/faiss_index/.  A   *)
(* file is <<>> when it is absent and <<content>> when it is there.       *)

\* the version identifier written with a bundle; the one before it is stale
FORMAT_VERSION == 2

FileNames == <<"index_faiss", "chunks_pkl", "metadata_pkl", "bm25_pkl">>

NoFiles ==
    [version |-> 0, index_faiss |-> <<>>, chunks_pkl |-> <<>>,
     metadata_pkl |-> <<>>, bm25_pkl |-> <<>>]

\* index.faiss: a header and the vectors as one row-major array
RECURSIVE Flatten(_)
Flatten(vs) == IF vs = <<>> THEN <<>> ELSE Head(vs) \o Flatten(Tail(vs))

WriteFaiss(vs) == [d |-> Dim, ntotal |-> Len(vs), data |-> Flatten(vs)]

\* fault variant: the array is read column by column
ReadFaissTransposed(f) ==
    [i \in 1..f.ntotal |-> [j \in 1..f.d |-> f.data[(j - 1) * f.ntotal + i]]]
ReadFaiss(f) ==
    [i \in 1..f.ntotal |-> [j \in 1..f.d |-> f.data[(i - 1) * f.d + j]]]

\* a pickled list: its length, then its items
Pickle(rows) == [count |-> Len(rows), items |-> rows]
Unpickle(f) == [i \in 1..f.count |-> f.items[i]]

\* bm25_index.pkl keeps the document lengths; the totals are recomputed
WriteBM25(st) == Pickle(st.doc_len)
ReadBM25(f) == BM25Stats(Unpickle(f))

FileOf(b, name) ==
    CASE name = "index_faiss"  -> <<WriteFaiss(b.vectors)>>
      [] name = "chunks_pkl"   -> <<Pickle(b.chunks)>>
      [] name = "metadata_pkl" -> <<Pickle(b.metadata)>>
      [] name = "bm25_pkl"     -> <<WriteBM25(b.bm25)>>

save(b) ==
    [version      |-> FORMAT_VERSION,
     index_faiss  |-> FileOf(b, "index_faiss"),
     chunks_pkl   |-> FileOf(b, "chunks_pkl"),
     metadata_pkl |-> FileOf(b, "metadata_pkl"),
     bm25_pkl     |-> FileOf(b, "bm25_pkl")]

FilesPresent(f) ==
    /\ f.index_faiss # <<>>
    /\ f.chunks_pkl # <<>>
    /\ f.metadata_pkl # <<>>
    /\ f.bm25_pkl # <<>>

\* every file can be parsed to its end
FilesWellFormed(f) ==
    /\ Len(f.index_faiss[1].data) = f.index_faiss[1].d * f.index_faiss[1].ntotal
    /\ f.index_faiss[1].d = Dim
    /\ Len(f.chunks_pkl[1].items) = f.chunks_pkl[1].count
    /\ Len(f.metadata_pkl[1].items) = f.metadata_pkl[1].count
    /\ Len(f.bm25_pkl[1].items) = f.bm25_pkl[1].count

\* fault variant: the artifacts are not compared with one another
FilesAlignedUnchecked(f) == TRUE
\* the four artifacts describe the same number of chunks, and at least one
FilesAligned(f) ==
    /\ f.chunks_pkl[1].count > 0
    /\ f.index_faiss[1].ntotal = f.chunks_pkl[1].count
    /\ f.metadata_pkl[1].count = f.chunks_pkl[1].count
    /\ f.bm25_pkl[1].count = f.chunks_pkl[1].count

Loadable(f) ==
    /\ FilesPresent(f)
    /\ f.version = FORMAT_VERSION
    /\ FilesWellFormed(f)
    /\ FilesAligned(f)

\* load(location): the bundle, or ok = FALSE for an IndexLoadError
load(f) ==
    IF Loadable(f)
    THEN [ok |-> TRUE,
          bundle |-> [chunks   |-> Unpickle(f.chunks_pkl[1]),
                      metadata |-> Unpickle(f.metadata_pkl[1]),
                      vectors  |-> ReadFaiss(f.index_faiss[1]),
                      bm25     |-> ReadBM25(f.bm25_pkl[1])]]
    ELSE [ok |-> FALSE, bundle |-> NoBundle]

\* the ways the files of a published bundle get damaged
RemoveFile(f, name) == [f EXCEPT ![name] = <<>>]
TruncateFaiss(f) ==
    [f EXCEPT !.index_faiss[1].data = SubSeq(@, 1, Len(@) - 1)]
StaleVersion(f) == [f EXCEPT !.version = FORMAT_VERSION - 1]
\* chunks.pkl of a build that had one chunk less
StaleChunks(f) ==
    [f EXCEPT !.chunks_pkl =
        <<Pickle(SubSeq(@[1].items, 1, Len(@[1].items) - 1))>>]

NoReads == [dense |-> <<>>, sparse |-> <<>>, chunks |-> <<>>, metadata |-> <<>>]

\* nothing built, nothing on disk, no engine started
BuildIdle ==
    /\ corpus = <<>>
    /\ bpc = "idle"
    /\ build_error = "none"
    /\ built = NoBundle
    /\ staged = NoFiles

QueryIdle ==
    /\ q_pc = "idle"
    /\ q_bundle = NoBundle
    /\ q_read = NoReads
    /\ q_error = "none"

StoreIdle ==
    /\ BuildIdle
    /\ disk = NoFiles
    /\ tampered = FALSE
    /\ loaded = FALSE
    /\ load_error = "none"
    /\ current = NoBundle
    /\ QueryIdle

----------------------------------------------------------------------------
(* The database of 01_schema.sql: tables, unique keys and triggers.  A    *)
(* nullable column holds <<>> for NULL and <<v>> for the value v.          *)

Users == 1..MaxUsers
Plates == 1..MaxPlates
Slots == 1..MaxSlots
RowIds == 1..MaxRows
Sessions == {"A", "B"}

SqlNull == <<>>
IsActiveValues == {SqlNull, <<0>>, <<1>>}

\* the outcome of the last statement: error is "none", the SQLSTATE "45000"
\* of SIGNAL, or the server's error number
Statement(table, op, u, s, a, err) ==
    [table |-> table, op |-> op, user_id |-> u, slot_id |-> s,
     is_active |-> a, error |-> err]

NoStatement == Statement("none", "none", 0, 0, SqlNull, "none")

\* SELECT COUNT of the rows of vehicles WHERE user_id = NEW.user_id
VehicleCount(rows, u) == Cardinality({r \in rows : r.user_id = u})

\* fault variant: the fourth vehicle passes
trg_vehicles_max_3_above(vehicle_count) ==
    IF vehicle_count > MAX_VEHICLES THEN "45000" ELSE "none"
\* BEFORE INSERT ON vehicles: IF vehicle_count >= 3 THEN SIGNAL SQLSTATE '45000'
trg_vehicles_max_3(vehicle_count) ==
    IF vehicle_count >= MAX_VEHICLES THEN "45000" ELSE "none"

\* UNIQUE KEY uq_vehicles_plate (plate)
PlateTaken(rows, p) == \E r \in rows : r.plate = p

\* UNIQUE KEY (user_id, is_active): rows whose is_active is NULL never clash
UniqueActiveClash(rows, new) ==
    /\ new.is_active # SqlNull
    /\ \E r \in rows : r.user_id = new.user_id /\ r.is_active = new.is_active

\* fault variant: the server lets a trigger update the table it is defined on
TriggerMayUpdateAlways(trigger_table, target_table) == TRUE

\* A statement of a trigger may not modify the table the trigger is defined
\* on: MySQL and MariaDB end it with error 1442 ("Can't update table ... in
\* stored function/trigger because it is already used by statement which
\* invoked this stored function/trigger"), whatever rows its WHERE matches,
\* and the INSERT that fired the trigger fails with it.
TriggerMayUpdate(trigger_table, target_table) == trigger_table # target_table

\* BEFORE INSERT ON subscriptions
trg_subscriptions_one_active(rows, new) ==
    IF new.is_active = <<1>>
    THEN IF TriggerMayUpdate("subscriptions", "subscriptions")
         THEN [error |-> "none",
               rows |-> {IF r.user_id = new.user_id /\ r.is_active = <<1>>
                         THEN [r EXCEPT !.is_active = SqlNull]
                         ELSE r : r \in rows}]
         ELSE [error |-> "1442", rows |-> rows]
    ELSE [error |-> "none", rows |-> rows]

\* SELECT slot_id INTO old_slot_id ... WHERE user_id = .. AND is_active = 1
\* LIMIT 1: <<>> when no row is found
OldSlotId(rows, u) ==
    IF \E r \in rows : r.user_id = u /\ r.is_active = <<1>>
    THEN <<(CHOOSE r \in rows : r.user_id = u /\ r.is_active = <<1>>).slot_id>>
    ELSE SqlNull

\* BEFORE INSERT ON slot_assignments
trg_slot_assignments_one_active(rows, avail, new) ==
    IF new.is_active = <<1>>
    THEN IF TriggerMayUpdate("slot_assignments", "slot_assignments")
         THEN [error |-> "none",
               rows |-> {IF r.user_id = new.user_id /\ r.is_active = <<1>>
                         THEN [r EXCEPT !.is_active = SqlNull,
                                        !.released = TRUE]
                         ELSE r : r \in rows},
               slots |-> IF OldSlotId(rows, new.user_id) # SqlNull
                         THEN [avail EXCEPT
                                 ![OldSlotId(rows, new.user_id)[1]] = TRUE]
                         ELSE avail]
         ELSE [error |-> "1442", rows |-> rows, slots |-> avail]
    ELSE [error |-> "none", rows |-> rows, slots |-> avail]

\* AFTER INSERT ON slot_assignments
trg_slot_assignments_mark_unavailable(avail, new) ==
    IF new.is_active = <<1>>
    THEN [avail EXCEPT ![new.slot_id] = FALSE]
    ELSE avail

\* AUTO_INCREMENT, within the ids of the model
HasFreeId(rows) == \E i \in RowIds : \A r \in rows : r.id # i
FreeId(rows) ==
    CHOOSE i \in RowIds :
        /\ \A r \in rows : r.id # i
        /\ \A j \in RowIds : (\A r \in rows : r.id # j) => i <= j

NoSession == [pc |-> "idle", user_id |-> 0, plate |-> 0]

\* the schema has just been created: the users and the slots exist, every
\* slot is available, the other tables are empty
DbIdle ==
    /\ vehicles = {}
    /\ subscriptions = {}
    /\ slots = [s \in Slots |-> TRUE]
    /\ slot_assignments = {}
    /\ db_last = NoStatement
    /\ sess = [s \in Sessions |-> NoSession]
    /\ users = Users

----------------------------------------------------------------------------
(* The web client: accounts, tokens, localStorage, routes *)

Roles == {"ADMIN", "STUDENT"}

\* the account of user u: the first user is the administrator
RoleOf(u) == IF u = 1 THEN "ADMIN" ELSE "STUDENT"

Null == <<>>

\* the server numbers the token pairs it issues: pair n is the access token n
\* and the refresh token n, owner[n] is the user it was issued to
NoTokens == [owner |-> <<>>, access_ok |-> {}, refresh_ok |-> {}]

\* POST /auth/login and POST /auth/refresh answer with a new pair
IssueTokens(srv, u) ==
    [owner |-> Append(srv.owner, u),
     access_ok |-> srv.access_ok \cup {Len(srv.owner) + 1},
     refresh_ok |-> srv.refresh_ok \cup {Len(srv.owner) + 1}]

\* the keys ChatInterface stores histories under
GuestKey == 0
StorageKeys == {GuestKey} \cup Users

EmptyStorage ==
    [access_token |-> Null, refresh_token |-> Null, user |-> Null,
     chat_history |-> [k \in StorageKeys |-> Null]]

\* the api requests that are in flight at a time
Requests == {"first", "second"}

\* a request of api: where it stands, the _retry mark and the Authorization
\* header of its config, the refresh token the interceptor read, the status
\* of the last response, the pair a refresh answered with, and how many
\* refreshes and re-sends were made for it
NoRequest ==
    [pc |-> "idle", retry |-> FALSE, Authorization |-> Null,
     refresh_token |-> Null, status |-> 0, fresh |-> 0, refreshes |-> 0,
     resends |-> 0]

\* the promise of the request is settled: what is left of it is the outcome,
\* the _retry mark, the last status and the counts
Settled(req, outcome) ==
    [req EXCEPT !.pc = outcome, !.Authorization = Null]

\* the server accepts the access token of a request
Authorized(srv, header) == header # Null /\ header[1] \in srv.access_ok

\* POST /auth/refresh with a refresh token the server accepts: a new pair
\* for the same user, and the token that was used is accepted no more
Rotate(srv, rt) ==
    [IssueTokens(srv, srv.owner[rt]) EXCEPT
        !.refresh_ok = (srv.refresh_ok \ {rt}) \cup {Len(srv.owner) + 1}]

\* localStorage.removeItem of access_token and refresh_token
RemoveTokens(ls) ==
    [ls EXCEPT !.access_token = Null, !.refresh_token = Null]

\* localStorage.setItem of the pair n
StoreTokens(ls, n) ==
    [ls EXCEPT !.access_token = <<n>>, !.refresh_token = <<n>>]

\* fault variant: the _retry mark is not looked at
ShouldRefreshAlways(status, retry) == status = 401
\* error.response?.status === 401 && !originalRequest._retry
ShouldRefresh(status, retry) == status = 401 /\ ~retry

\* a message of the chat: the greeting, a message a user submitted, or the
\* reply to one; of is the key of the user who submitted the message
Message(kind, key) == [kind |-> kind, of |-> key]

\* the greeting of a fresh chat
defaultMessage == <<Message("default", GuestKey)>>

\* getStorageKey(): the key of the user stored in localStorage
getStorageKey(ls) == IF ls.user = Null THEN GuestKey ELSE ls.user[1]

\* localStorage.getItem(key), or the default
SavedMessages(ls, key) ==
    IF ls.chat_history[key] = Null THEN defaultMessage
    ELSE ls.chat_history[key][1]

\* the save effect: localStorage.setItem(storageKey, messages)
SaveHistory(ls, key, msgs) == [ls EXCEPT !.chat_history[key] = <<msgs>>]

\* the paths a browser can be sent to; "/other" stands for every path that
\* no route matches
Paths == {"/login", "/", "/student", "/admin", "/other"}

Rendering(element, to, replace) ==
    [element |-> element, to |-> to, replace |-> replace]

\* fault variant: the role of the user is not looked at
ProtectedRouteAnyRole(allowedRoles, usr, ld) ==
    IF ld THEN Rendering("spinner", "", FALSE)
    ELSE IF usr = Null THEN Rendering("Navigate", "/login", TRUE)
    ELSE Rendering("Outlet", "", FALSE)
\* ProtectedRoute({ allowedRoles }) with useAuth() giving usr and ld
ProtectedRoute(allowedRoles, usr, ld) ==
    IF ld THEN Rendering("spinner", "", FALSE)
    ELSE IF usr = Null THEN Rendering("Navigate", "/login", TRUE)
    ELSE IF allowedRoles # {} /\ RoleOf(usr[1]) \notin allowedRoles
    THEN Rendering("Navigate",
                   IF RoleOf(usr[1]) = "ADMIN" THEN "/admin" ELSE "/student",
                   TRUE)
    ELSE Rendering("Outlet", "", FALSE)

\* <Route element={guard}><Route path=.. element={page} /></Route>
Outlet(guard, page) ==
    IF guard.element = "Outlet" THEN Rendering(page, "", FALSE) ELSE guard

\* what <Routes> of App renders at a path
View(path, usr, ld) ==
    CASE path = "/login" -> Rendering("Login", "", FALSE)
      [] path = "/" -> Rendering("Navigate", "/login", TRUE)
      [] path = "/student" ->
            Outlet(ProtectedRoute({"STUDENT"}, usr, ld), "StudentDashboard")
      [] path = "/admin" ->
            Outlet(ProtectedRoute({"ADMIN"}, usr, ld), "AdminDashboard")
      [] OTHER -> Rendering("Navigate", "/login", FALSE)

\* the browser has just been opened on /login: nothing is stored, nobody is
\* signed in, the AuthProvider has finished its check
FrontendIdle ==
    /\ localStorage = EmptyStorage
    /\ server = NoTokens
    /\ user = Null
    /\ loading = FALSE
    /\ location = "/login"
    /\ requests = [r \in Requests |-> NoRequest]
    /\ storageKey = GuestKey
    /\ messages = defaultMessage
    /\ chat_pending = {}

RestIdle == StoreIdle /\ DbIdle /\ FrontendIdle

----------------------------------------------------------------------------
(* The query pipeline: retrieve -> ground -> agent *)

RagIdle ==
    /\ phase = "idle"
    /\ dense = <<>>
    /\ sparse = <<>>
    /\ k_final = 0
    /\ fused = <<>>
    /\ error = "none"
    /\ threshold = 0
    /\ ctx = NoContext
    /\ llm_calls = 0
    /\ answer = ""

ChunkerIdle ==
    /\ text = <<>>
    /\ chunk_size = 1
    /\ overlap = 0
    /\ chunks = <<>>
    /\ cpc = "idle"

\* both searches answer; the two rankings are fused
Retrieve ==
    /\ phase = "idle"
    /\ \E d \in RankedLists, s \in RankedLists, k \in 1..NChunks :
          /\ dense' = d
          /\ sparse' = s
          /\ k_final' = k
          /\ fused' = retrieve_hybrid(d, s, k)
    /\ phase' = "retrieved"
    /\ UNCHANGED <<error, threshold, ctx, llm_calls, answer, chunkVars, restVars>>

\* a search structure fails at query time: the error is surfaced
RetrieveFails ==
    /\ phase = "idle"
    /\ phase' = "error"
    /\ error' = "RetrievalError"
    /\ UNCHANGED <<dense, sparse, k_final, fused, threshold, ctx, llm_calls,
                   answer, chunkVars, restVars>>

\* ground(fused_results, relevance_threshold); retrieve's lists are gone
Ground ==
    /\ phase = "retrieved"
    /\ \E t \in 0..(MaxRaw + 1) :
          /\ threshold' = t
          /\ ctx' = ground(fused, t)
    /\ phase' = "grounded"
    /\ dense' = <<>>
    /\ sparse' = <<>>
    /\ k_final' = 0
    /\ UNCHANGED <<fused, error, llm_calls, answer, chunkVars, restVars>>

\* "if not context_found: return ..." - the LLM is never called
AnswerNotFound ==
    /\ phase = "grounded"
    /\ ~MayGenerate(ctx)
    /\ answer' = NotFoundMessage
    /\ phase' = "answered"
    /\ UNCHANGED <<dense, sparse, k_final, fused, error, threshold, ctx,
                   llm_calls, chunkVars, restVars>>

\* the prompt is built from the context and the LLM is called
Generate ==
    /\ phase = "grounded"
    /\ MayGenerate(ctx)
    /\ llm_calls' = llm_calls + 1
    /\ answer' = "generated"
    /\ phase' = "answered"
    /\ UNCHANGED <<dense, sparse, k_final, fused, error, threshold, ctx,
                   chunkVars, restVars>>

\* the next query starts from scratch
NextQuery ==
    /\ phase \in {"answered", "error"}
    /\ phase' = "idle"
    /\ dense' = <<>>
    /\ sparse' = <<>>
    /\ k_final' = 0
    /\ fused' = <<>>
    /\ error' = "none"
    /\ threshold' = 0
    /\ ctx' = NoContext
    /\ llm_calls' = 0
    /\ answer' = ""
    /\ UNCHANGED <<chunkVars, restVars>>

InitRetrieval == RagIdle /\ ChunkerIdle /\ RestIdle

NextRetrieval ==
    \/ Retrieve
    \/ RetrieveFails
    \/ Ground
    \/ AnswerNotFound
    \/ Generate
    \/ NextQuery

SpecRetrieval == InitRetrieval /\ [][NextRetrieval]_vars

----------------------------------------------------------------------------
(* The chunker at index-build time *)

Chunk ==
    /\ cpc = "idle"
    /\ \E txt \in Texts, size \in 1..MaxChunkSize :
          \E ov \in 0..(size - 1) :
            /\ txt # <<>>
            /\ text' = txt
            /\ chunk_size' = size
            /\ overlap' = ov
            /\ chunks' = chunk_text(txt, size, ov)
    /\ cpc' = "done"
    /\ UNCHANGED <<ragVars, restVars>>

\* a document without extractable text: IngestionError
ChunkFails ==
    /\ cpc = "idle"
    /\ text' = <<>>
    /\ chunks' = <<>>
    /\ cpc' = "failed"
    /\ UNCHANGED <<chunk_size, overlap, ragVars, restVars>>

NextDocument ==
    /\ cpc \in {"done", "failed"}
    /\ text' = <<>>
    /\ chunk_size' = 1
    /\ overlap' = 0
    /\ chunks' = <<>>
    /\ cpc' = "idle"
    /\ UNCHANGED <<ragVars, restVars>>

InitChunker == RagIdle /\ ChunkerIdle /\ RestIdle

NextChunker == Chunk \/ ChunkFails \/ NextDocument

SpecChunker == InitChunker /\ [][NextChunker]_vars

----------------------------------------------------------------------------
(* build_index: the offline build and its publication *)

\* the chunks of the corpus are collected; an empty set is an IndexBuildError
BuildStart ==
    /\ bpc = "idle"
    /\ \E c \in Corpora :
          /\ corpus' = c
          /\ IF c = <<>>
             THEN bpc' = "failed" /\ build_error' = "IndexBuildError"
             ELSE bpc' = "chunked" /\ build_error' = "none"
    /\ UNCHANGED <<built, staged, disk, serveVars, ragVars, chunkVars, dbVars, feVars>>

\* embeddings, FAISS index and BM25 statistics are built in memory
BuildIndexes ==
    /\ bpc = "chunked"
    /\ built' = BuildBundle(corpus)
    /\ bpc' = "indexed"
    /\ UNCHANGED <<corpus, build_error, staged, disk, serveVars, ragVars,
                   chunkVars, dbVars, feVars>>

\* the embedding function fails on a chunk: the whole build aborts
BuildEmbeddingFails ==
    /\ bpc = "chunked"
    /\ bpc' = "failed"
    /\ build_error' = "EmbeddingError"
    /\ UNCHANGED <<corpus, built, staged, disk, serveVars, ragVars, chunkVars, dbVars, feVars>>

\* the first file of FileNames the temporary location does not hold yet
NextFile(f) ==
    CHOOSE i \in 1..Len(FileNames) :
        /\ f[FileNames[i]] = <<>>
        /\ \A j \in 1..(i - 1) : f[FileNames[j]] # <<>>

\* one artifact is written to the temporary location
BuildWriteFile ==
    /\ bpc = "indexed"
    /\ ~FilesPresent(staged)
    /\ staged' = [staged EXCEPT ![FileNames[NextFile(staged)]] =
                      FileOf(built, FileNames[NextFile(staged)])]
    /\ UNCHANGED <<corpus, bpc, build_error, built, disk, serveVars, ragVars,
                   chunkVars, dbVars, feVars>>

\* the version identifier completes the temporary location
BuildWriteVersion ==
    /\ bpc = "indexed"
    /\ FilesPresent(staged)
    /\ staged' = [staged EXCEPT !.version = FORMAT_VERSION]
    /\ bpc' = "staged"
    /\ UNCHANGED <<corpus, build_error, built, disk, serveVars, ragVars,
                   chunkVars, dbVars, feVars>>

\* fault variant: the temporary location is swapped in at any time
ReadyToPublishAlways(pc) == pc # "idle"
ReadyToPublish(pc) == pc = "staged"

\* the temporary location atomically replaces data/faiss_index/
Publish ==
    /\ ReadyToPublish(bpc)
    /\ disk' = staged
    /\ staged' = NoFiles
    /\ corpus' = <<>>
    /\ built' = NoBundle
    /\ bpc' = "idle"
    /\ build_error' = "none"
    /\ UNCHANGED <<serveVars, ragVars, chunkVars, dbVars, feVars>>

\* a failed build is given up; what it left in the temporary location goes
BuildAbandon ==
    /\ bpc = "failed"
    /\ staged' = NoFiles
    /\ corpus' = <<>>
    /\ built' = NoBundle
    /\ bpc' = "idle"
    /\ build_error' = "none"
    /\ UNCHANGED <<disk, serveVars, ragVars, chunkVars, dbVars, feVars>>

InitIndexBuild == RagIdle /\ ChunkerIdle /\ RestIdle

NextIndexBuild ==
    \/ BuildStart
    \/ BuildIndexes
    \/ BuildEmbeddingFails
    \/ BuildWriteFile
    \/ BuildWriteVersion
    \/ Publish
    \/ BuildAbandon

SpecIndexBuild == InitIndexBuild /\ [][NextIndexBuild]_vars

----------------------------------------------------------------------------
(* The engine: load at start or on reload, and a query in flight *)

\* a whole build_index run that succeeded, as the serving process sees it:
\* data/faiss_index/ is replaced in one step
Rebuild ==
    /\ \E c \in Corpora :
          /\ c # <<>>
          /\ disk' = save(BuildBundle(c))
    /\ tampered' = FALSE
    /\ UNCHANGED <<buildVars, loaded, load_error, current, q_pc, q_bundle,
                   q_read, q_error, ragVars, chunkVars, dbVars, feVars>>

\* a file of the published bundle disappears
TamperRemove ==
    /\ ~tampered
    /\ disk # NoFiles
    /\ \E i \in 1..Len(FileNames) : disk' = RemoveFile(disk, FileNames[i])
    /\ tampered' = TRUE
    /\ UNCHANGED <<buildVars, loaded, load_error, current, q_pc, q_bundle,
                   q_read, q_error, ragVars, chunkVars, dbVars, feVars>>

\* index.faiss is cut short, or chunks.pkl is the one of another build
TamperCorrupt ==
    /\ ~tampered
    /\ disk # NoFiles
    /\ disk' \in {TruncateFaiss(disk), StaleChunks(disk)}
    /\ tampered' = TRUE
    /\ UNCHANGED <<buildVars, loaded, load_error, current, q_pc, q_bundle,
                   q_read, q_error, ragVars, chunkVars, dbVars, feVars>>

\* the files are those of an older serialization
TamperVersion ==
    /\ ~tampered
    /\ disk # NoFiles
    /\ disk' = StaleVersion(disk)
    /\ tampered' = TRUE
    /\ UNCHANGED <<buildVars, loaded, load_error, current, q_pc, q_bundle,
                   q_read, q_error, ragVars, chunkVars, dbVars, feVars>>

\* load at process start or on explicit reload: the engine's reference is
\* replaced in one step, or the engine refuses to serve
Load ==
    /\ IF load(disk).ok
       THEN /\ current' = load(disk).bundle
            /\ loaded' = TRUE
            /\ load_error' = "none"
       ELSE /\ current' = NoBundle
            /\ loaded' = FALSE
            /\ load_error' = "IndexLoadError"
    /\ UNCHANGED <<buildVars, disk, tampered, q_pc, q_bundle, q_read, q_error,
                   ragVars, chunkVars, dbVars, feVars>>

\* a query starts: it takes the engine's reference once
QueryStart ==
    /\ loaded
    /\ q_pc = "idle"
    /\ q_bundle' = current
    /\ q_pc' = "dense"
    /\ UNCHANGED <<buildVars, disk, tampered, loaded, load_error, current,
                   q_read, q_error, ragVars, chunkVars, dbVars, feVars>>

\* fault variant: every read follows the engine's reference anew
QuerySourceLive(taken, cur) == cur
\* the bundle a running query reads: the one it took when it started
QuerySource(taken, cur) == taken

\* fault variant: the query goes on with the path that is left
AfterFailureFallback(path) ==
    [pc |-> IF path = "dense" THEN "sparse" ELSE "chunks", error |-> "none"]
\* a search structure fails: the query ends with a RetrievalError
AfterFailure(path) == [pc |-> "failed", error |-> "RetrievalError"]

QueryDense ==
    /\ q_pc = "dense"
    /\ q_read' = [q_read EXCEPT
                    !.dense = <<QuerySource(q_bundle, current).vectors>>]
    /\ q_pc' = "sparse"
    /\ UNCHANGED <<buildVars, disk, tampered, loaded, load_error, current,
                   q_bundle, q_error, ragVars, chunkVars, dbVars, feVars>>

QueryDenseFails ==
    /\ q_pc = "dense"
    /\ q_pc' = AfterFailure("dense").pc
    /\ q_error' = AfterFailure("dense").error
    /\ UNCHANGED <<buildVars, disk, tampered, loaded, load_error, current,
                   q_bundle, q_read, ragVars, chunkVars, dbVars, feVars>>

QuerySparse ==
    /\ q_pc = "sparse"
    /\ q_read' = [q_read EXCEPT
                    !.sparse = <<QuerySource(q_bundle, current).bm25>>]
    /\ q_pc' = "chunks"
    /\ UNCHANGED <<buildVars, disk, tampered, loaded, load_error, current,
                   q_bundle, q_error, ragVars, chunkVars, dbVars, feVars>>

QuerySparseFails ==
    /\ q_pc = "sparse"
    /\ q_pc' = AfterFailure("sparse").pc
    /\ q_error' = AfterFailure("sparse").error
    /\ UNCHANGED <<buildVars, disk, tampered, loaded, load_error, current,
                   q_bundle, q_read, ragVars, chunkVars, dbVars, feVars>>

\* the texts of the retrieved chunks are looked up
QueryChunks ==
    /\ q_pc = "chunks"
    /\ q_read' = [q_read EXCEPT
                    !.chunks = <<QuerySource(q_bundle, current).chunks>>]
    /\ q_pc' = "metadata"
    /\ UNCHANGED <<buildVars, disk, tampered, loaded, load_error, current,
                   q_bundle, q_error, ragVars, chunkVars, dbVars, feVars>>

\* the sources of the retrieved chunks are looked up: the results are there
QueryMetadata ==
    /\ q_pc = "metadata"
    /\ q_read' = [q_read EXCEPT
                    !.metadata = <<QuerySource(q_bundle, current).metadata>>]
    /\ q_pc' = "done"
    /\ UNCHANGED <<buildVars, disk, tampered, loaded, load_error, current,
                   q_bundle, q_error, ragVars, chunkVars, dbVars, feVars>>

\* the caller has its results or its error; the next query may start
QueryReturn ==
    /\ q_pc \in {"done", "failed"}
    /\ q_pc' = "idle"
    /\ q_bundle' = NoBundle
    /\ q_read' = NoReads
    /\ q_error' = "none"
    /\ UNCHANGED <<buildVars, disk, tampered, loaded, load_error, current,
                   ragVars, chunkVars, dbVars, feVars>>

InitServing == RagIdle /\ ChunkerIdle /\ RestIdle

NextServing ==
    \/ Rebuild
    \/ TamperRemove
    \/ TamperCorrupt
    \/ TamperVersion
    \/ Load
    \/ QueryStart
    \/ QueryDense
    \/ QueryDenseFails
    \/ QuerySparse
    \/ QuerySparseFails
    \/ QueryChunks
    \/ QueryMetadata
    \/ QueryReturn

SpecServing == InitServing /\ [][NextServing]_vars

----------------------------------------------------------------------------
(* Table vehicles, one statement at a time *)

\* INSERT INTO vehicles (user_id, plate, ...): the BEFORE INSERT trigger,
\* then the unique key, then the row
InsertVehicle ==
    /\ \E u \in users, p \in Plates :
          LET err == IF trg_vehicles_max_3(VehicleCount(vehicles, u)) # "none"
                     THEN trg_vehicles_max_3(VehicleCount(vehicles, u))
                     ELSE IF PlateTaken(vehicles, p) THEN "1062" ELSE "none"
          IN /\ vehicles' = IF err = "none"
                            THEN vehicles \cup {[user_id |-> u, plate |-> p]}
                            ELSE vehicles
             /\ db_last' = Statement("vehicles", "insert", u, 0, SqlNull, err)
    /\ UNCHANGED <<subscriptions, slots, slot_assignments, sess, users, storeVars, feVars,
                   ragVars, chunkVars>>

\* DELETE FROM vehicles WHERE plate = ..: no trigger is defined on DELETE
DeleteVehicle ==
    /\ \E r \in vehicles :
          /\ vehicles' = vehicles \ {r}
          /\ db_last' = Statement("vehicles", "delete", r.user_id, 0, SqlNull,
                                  "none")
    /\ UNCHANGED <<subscriptions, slots, slot_assignments, sess, users, storeVars, feVars,
                   ragVars, chunkVars>>

InitVehicles == RagIdle /\ ChunkerIdle /\ RestIdle

NextVehicles == InsertVehicle \/ DeleteVehicle

SpecVehicles == InitVehicles /\ [][NextVehicles]_vars

----------------------------------------------------------------------------
(* Table vehicles, sessions inserting concurrently.  The statements of a  *)
(* trigger run inside the INSERT that fired it; its SELECT COUNT is a     *)
(* consistent read of InnoDB: it takes no lock and sees the committed     *)
(* rows, not the rows other sessions have inserted and not yet committed. *)

\* the INSERT of session s starts: trg_vehicles_max_3 counts and decides
SessionTrigger(s) ==
    /\ sess[s].pc = "idle"
    /\ \E u \in users, p \in Plates :
          IF trg_vehicles_max_3(VehicleCount(vehicles, u)) # "none"
          THEN /\ db_last' = Statement("vehicles", "insert", u, 0, SqlNull,
                     trg_vehicles_max_3(VehicleCount(vehicles, u)))
               /\ sess' = sess
          ELSE /\ sess' = [sess EXCEPT
                             ![s] = [pc |-> "checked", user_id |-> u,
                                     plate |-> p]]
               /\ db_last' = db_last
    /\ UNCHANGED <<vehicles, subscriptions, slots, slot_assignments,
                   users, storeVars, feVars, ragVars, chunkVars>>

\* the row is inserted, not yet committed; a session waits for another
\* one that holds the same plate uncommitted
SessionInsert(s) ==
    /\ sess[s].pc = "checked"
    /\ \A t \in Sessions \ {s} :
          ~(sess[t].pc = "inserted" /\ sess[t].plate = sess[s].plate)
    /\ IF PlateTaken(vehicles, sess[s].plate)
       THEN /\ db_last' = Statement("vehicles", "insert", sess[s].user_id, 0,
                                    SqlNull, "1062")
            /\ sess' = [sess EXCEPT ![s] = NoSession]
       ELSE /\ sess' = [sess EXCEPT ![s].pc = "inserted"]
            /\ db_last' = db_last
    /\ UNCHANGED <<vehicles, subscriptions, slots, slot_assignments,
                   users, storeVars, feVars, ragVars, chunkVars>>

\* COMMIT: the row becomes visible to the other sessions
SessionCommit(s) ==
    /\ sess[s].pc = "inserted"
    /\ vehicles' = vehicles \cup
                     {[user_id |-> sess[s].user_id, plate |-> sess[s].plate]}
    /\ db_last' = Statement("vehicles", "insert", sess[s].user_id, 0, SqlNull,
                            "none")
    /\ sess' = [sess EXCEPT ![s] = NoSession]
    /\ UNCHANGED <<subscriptions, slots, slot_assignments, users, storeVars, feVars, ragVars,
                   chunkVars>>

InitVehicleSessions == RagIdle /\ ChunkerIdle /\ RestIdle

NextVehicleSessions ==
    \E s \in Sessions :
        \/ SessionTrigger(s)
        \/ SessionInsert(s)
        \/ SessionCommit(s)

SpecVehicleSessions == InitVehicleSessions /\ [][NextVehicleSessions]_vars

----------------------------------------------------------------------------
(* Table subscriptions *)

\* INSERT INTO subscriptions (user_id, ..., is_active): the BEFORE INSERT
\* trigger, then the unique key, then the row; a statement that fails
\* leaves nothing behind
InsertSubscription ==
    /\ HasFreeId(subscriptions)
    /\ \E u \in users, a \in IsActiveValues :
          LET new == [id |-> FreeId(subscriptions), user_id |-> u,
                      is_active |-> a]
              before == trg_subscriptions_one_active(subscriptions, new)
              err == IF before.error # "none" THEN before.error
                     ELSE IF UniqueActiveClash(before.rows, new) THEN "1062"
                     ELSE "none"
          IN /\ subscriptions' = IF err = "none"
                                 THEN before.rows \cup {new}
                                 ELSE subscriptions
             /\ db_last' = Statement("subscriptions", "insert", u, 0, a, err)
    /\ UNCHANGED <<vehicles, slots, slot_assignments, sess, users, storeVars, feVars,
                   ragVars, chunkVars>>

\* DELETE FROM subscriptions WHERE id = ..
DeleteSubscription ==
    /\ \E r \in subscriptions :
          /\ subscriptions' = subscriptions \ {r}
          /\ db_last' = Statement("subscriptions", "delete", r.user_id, 0,
                                  r.is_active, "none")
    /\ UNCHANGED <<vehicles, slots, slot_assignments, sess, users, storeVars, feVars,
                   ragVars, chunkVars>>

InitSubscriptions == RagIdle /\ ChunkerIdle /\ RestIdle

NextSubscriptions == InsertSubscription \/ DeleteSubscription

SpecSubscriptions == InitSubscriptions /\ [][NextSubscriptions]_vars

----------------------------------------------------------------------------
(* Tables slot_assignments and slots *)

\* INSERT INTO slot_assignments (user_id, slot_id, is_active): the BEFORE
\* INSERT trigger, the unique key, the row, then the AFTER INSERT trigger
InsertSlotAssignment ==
    /\ HasFreeId(slot_assignments)
    /\ \E u \in users, s \in Slots, a \in IsActiveValues :
          LET new == [id |-> FreeId(slot_assignments), user_id |-> u,
                      slot_id |-> s, is_active |-> a, released |-> FALSE]
              before == trg_slot_assignments_one_active(slot_assignments,
                                                        slots, new)
              err == IF before.error # "none" THEN before.error
                     ELSE IF UniqueActiveClash(before.rows, new) THEN "1062"
                     ELSE "none"
          IN /\ slot_assignments' = IF err = "none"
                                    THEN before.rows \cup {new}
                                    ELSE slot_assignments
             /\ slots' = IF err = "none"
                         THEN trg_slot_assignments_mark_unavailable(
                                  before.slots, new)
                         ELSE slots
             /\ db_last' = Statement("slot_assignments", "insert", u, s, a,
                                     err)
    /\ UNCHANGED <<vehicles, subscriptions, sess, users, storeVars, feVars, ragVars,
                   chunkVars>>

\* DELETE FROM slot_assignments WHERE id = ..: no trigger is defined on
\* DELETE, the slot's is_available stays as it is
DeleteSlotAssignment ==
    /\ \E r \in slot_assignments :
          /\ slot_assignments' = slot_assignments \ {r}
          /\ db_last' = Statement("slot_assignments", "delete", r.user_id,
                                  r.slot_id, r.is_active, "none")
    /\ UNCHANGED <<vehicles, subscriptions, slots, sess, users, storeVars, feVars, ragVars,
                   chunkVars>>

InitSlotAssignments == RagIdle /\ ChunkerIdle /\ RestIdle

NextSlotAssignments == InsertSlotAssignment \/ DeleteSlotAssignment

SpecSlotAssignments == InitSlotAssignments /\ [][NextSlotAssignments]_vars

----------------------------------------------------------------------------
(* Tables users, vehicles, slot_assignments and slots: the life of a slot. *)
(* The tables start in any state of a database in use in which the         *)
(* availability of the slots matches the assignments: every user holds a   *)
(* vehicle and one assignment, active or released earlier.                 *)

\* what a user holds at the start
Holdings == [slot_id : Slots, is_active : {SqlNull, <<1>>}]

\* the rows of slot_assignments for the holdings h of the users
AssignmentRows(h) ==
    {[id |-> u, user_id |-> u, slot_id |-> h[u].slot_id,
      is_active |-> h[u].is_active,
      released |-> (h[u].is_active = SqlNull)] : u \in Users}

\* is_available of every slot as the assignments imply it
AvailabilityOf(rows) ==
    [s \in Slots |-> ~ \E r \in rows : r.slot_id = s /\ r.is_active = <<1>>]

TablesInUse ==
    /\ users = Users
    /\ vehicles = {[user_id |-> u, plate |-> u] : u \in Users}
    /\ subscriptions = {}
    /\ \E h \in [Users -> Holdings] :
          /\ slot_assignments = AssignmentRows(h)
          /\ slots = AvailabilityOf(AssignmentRows(h))
    /\ db_last = NoStatement
    /\ sess = [s \in Sessions |-> NoSession]

\* DELETE FROM users WHERE id = u: ON DELETE CASCADE removes the rows of
\* vehicles, subscriptions and slot_assignments that reference the user; no
\* trigger is defined on DELETE and a cascade fires none, so the table slots
\* is not touched.  db_last keeps the slot the user held actively (0: none).
DeleteUser ==
    /\ \E u \in users :
          /\ users' = users \ {u}
          /\ vehicles' = {r \in vehicles : r.user_id # u}
          /\ subscriptions' = {r \in subscriptions : r.user_id # u}
          /\ slot_assignments' = {r \in slot_assignments : r.user_id # u}
          /\ db_last' = Statement("users", "delete", u,
                 IF OldSlotId(slot_assignments, u) # SqlNull
                 THEN OldSlotId(slot_assignments, u)[1] ELSE 0,
                 IF OldSlotId(slot_assignments, u) # SqlNull
                 THEN <<1>> ELSE SqlNull,
                 "none")
    /\ UNCHANGED <<slots, sess, storeVars, feVars, ragVars, chunkVars>>

InitSlotLifecycle ==
    RagIdle /\ ChunkerIdle /\ StoreIdle /\ FrontendIdle /\ TablesInUse

NextSlotLifecycle == InsertSlotAssignment \/ DeleteUser

SpecSlotLifecycle == InitSlotLifecycle /\ [][NextSlotLifecycle]_vars

----------------------------------------------------------------------------
(* The web client: AuthProvider, the Login page, the Navbar and the routes *)

\* the page is loaded at a path (a typed address, a reload, an assignment
\* to window.location.href): React state starts over, the requests of the
\* page that was left are dropped
PageLoad(path) ==
    /\ location' = path
    /\ user' = Null
    /\ loading' = TRUE
    /\ requests' = [r \in Requests |-> NoRequest]
    /\ UNCHANGED <<localStorage, server, chatVars, storeVars, dbVars,
                   ragVars, chunkVars>>

\* the effect of a rendered <Navigate>
FollowNavigate ==
    LET v == View(location, user, loading)
    IN /\ v.element = "Navigate"
       /\ location' = v.to
       /\ UNCHANGED <<localStorage, server, authVars, requests, chatVars,
                      storeVars, dbVars, ragVars, chunkVars>>

\* checkAuth of AuthProvider, run on mount, together with GET /auth/me and
\* its pass through the response interceptor; no other request of the page
\* is in flight while loading is true.  Without a token: loading ends.  With
\* a token the server accepts: the user, or a failure without a response,
\* which leaves the user null.  With a token the server rejects (401): the
\* interceptor refreshes and re-sends, or, when there is no refresh token
\* or the refresh is refused, removes the tokens and sets
\* window.location.href; checkAuth then catches the 401 and calls
\* logout(false), and the page is loaded again at /login.
checkAuth ==
    /\ loading
    /\ \/ /\ localStorage.access_token = Null
          /\ loading' = FALSE
          /\ UNCHANGED <<localStorage, server, user, location>>
       \/ /\ Authorized(server, localStorage.access_token)
          /\ \/ user' = <<server.owner[localStorage.access_token[1]]>>
             \/ user' = user
          /\ loading' = FALSE
          /\ UNCHANGED <<localStorage, server, location>>
       \/ /\ localStorage.access_token # Null
          /\ ~Authorized(server, localStorage.access_token)
          /\ localStorage.refresh_token # Null
          /\ localStorage.refresh_token[1] \in server.refresh_ok
          /\ Len(server.owner) < MaxTokens
          /\ server' = Rotate(server, localStorage.refresh_token[1])
          /\ localStorage' = StoreTokens(localStorage, Len(server.owner) + 1)
          /\ user' = <<server.owner[localStorage.refresh_token[1]]>>
          /\ loading' = FALSE
          /\ UNCHANGED location
       \/ /\ localStorage.access_token # Null
          /\ ~Authorized(server, localStorage.access_token)
          /\ \/ localStorage.refresh_token = Null
             \/ /\ localStorage.refresh_token # Null
                /\ localStorage.refresh_token[1] \notin server.refresh_ok
          /\ localStorage' = [RemoveTokens(localStorage) EXCEPT !.user = Null]
          /\ location' = "/login"
          /\ user' = Null
          /\ loading' = TRUE
          /\ UNCHANGED server
    /\ UNCHANGED <<requests, chatVars, storeVars, dbVars, ragVars, chunkVars>>

\* handleSubmit of the Login page with credentials the server accepts:
\* login stores the tokens and the user, then navigate by role
login ==
    /\ View(location, user, loading).element = "Login"
    /\ Len(server.owner) < MaxTokens
    /\ \E u \in Users :
          /\ server' = IssueTokens(server, u)
          /\ localStorage' = [StoreTokens(localStorage,
                                           Len(server.owner) + 1)
                                 EXCEPT !.user = <<u>>]
          /\ user' = <<u>>
          /\ location' = IF RoleOf(u) = "ADMIN" THEN "/admin" ELSE "/student"
    /\ UNCHANGED <<loading, requests, chatVars, storeVars, dbVars, ragVars,
                   chunkVars>>

\* handleLogout of the Navbar: logout, then navigate to /login
logout ==
    /\ View(location, user, loading).element
          \in {"StudentDashboard", "AdminDashboard"}
    /\ localStorage' = [RemoveTokens(localStorage) EXCEPT !.user = Null]
    /\ user' = Null
    /\ location' = "/login"
    /\ UNCHANGED <<server, loading, requests, chatVars, storeVars, dbVars,
                   ragVars, chunkVars>>

InitRoutes == RagIdle /\ ChunkerIdle /\ RestIdle

NextRoutes ==
    \/ \E path \in Paths : PageLoad(path)
    \/ FollowNavigate
    \/ checkAuth
    \/ login
    \/ logout

SpecRoutes == InitRoutes /\ [][NextRoutes]_vars

----------------------------------------------------------------------------
(* The web client: the requests of api and its response interceptor.  The  *)
(* refresh tokens are within their seven days: the server refuses a        *)
(* refresh token only once it has been used.                               *)

\* the oldest access token reaches the end of its 60 minutes
AccessExpires ==
    /\ \E n \in server.access_ok :
          /\ \A m \in server.access_ok : n <= m
          /\ server' = [server EXCEPT !.access_ok = server.access_ok \ {n}]
    /\ UNCHANGED <<localStorage, authVars, location, requests, chatVars,
                   storeVars, dbVars, ragVars, chunkVars>>

\* a page of a signed-in user calls api: the request interceptor adds the
\* Authorization header from localStorage
Send(r) ==
    /\ View(location, user, loading).element
          \in {"StudentDashboard", "AdminDashboard"}
    /\ requests[r].pc \in {"idle", "resolved", "rejected"}
    /\ requests' = [requests EXCEPT
                       ![r] = [NoRequest EXCEPT
                                 !.pc = "sent",
                                 !.Authorization = localStorage.access_token]]
    /\ UNCHANGED <<localStorage, server, authVars, location, chatVars,
                   storeVars, dbVars, ragVars, chunkVars>>

\* the server answers the request: 200, or 401 for a token it does not
\* accept
ServerAnswers(r) ==
    /\ requests[r].pc = "sent"
    /\ requests' = [requests EXCEPT
                       ![r].pc = "responded",
                       ![r].status =
                          IF Authorized(server, requests[r].Authorization)
                          THEN 200 ELSE 401]
    /\ UNCHANGED <<localStorage, server, authVars, location, chatVars,
                   storeVars, dbVars, ragVars, chunkVars>>

\* the response reaches api.interceptors.response: passed on, or the first
\* part of the error handler up to the POST of /auth/refresh.  Setting
\* window.location.href loads the page again at /login and drops the
\* requests of the page that is left.
OnResponse(r) ==
    /\ requests[r].pc = "responded"
    /\ IF requests[r].status = 200
       THEN /\ requests' = [requests EXCEPT ![r] = Settled(@, "resolved")]
            /\ UNCHANGED <<localStorage, authVars, location>>
       ELSE IF ShouldRefresh(requests[r].status, requests[r].retry)
       THEN IF localStorage.refresh_token # Null
            THEN /\ requests' = [requests EXCEPT
                       ![r].retry = TRUE,
                       ![r].refresh_token = localStorage.refresh_token,
                       ![r].refreshes = requests[r].refreshes + 1,
                       ![r].pc = "refreshing"]
                 /\ UNCHANGED <<localStorage, authVars, location>>
            ELSE /\ localStorage' = RemoveTokens(localStorage)
                 /\ location' = "/login"
                 /\ user' = Null
                 /\ loading' = TRUE
                 /\ requests' = [q \in Requests |-> NoRequest]
       ELSE /\ requests' = [requests EXCEPT ![r] = Settled(@, "rejected")]
            /\ UNCHANGED <<localStorage, authVars, location>>
    /\ UNCHANGED <<server, chatVars, storeVars, dbVars, ragVars, chunkVars>>

\* the server answers POST /auth/refresh: a new pair for a refresh token it
\* accepts, which it rotates, and a refusal for any other
RefreshAnswers(r) ==
    /\ requests[r].pc = "refreshing"
    /\ IF requests[r].refresh_token[1] \in server.refresh_ok
       THEN /\ Len(server.owner) < MaxTokens
            /\ server' = Rotate(server, requests[r].refresh_token[1])
            /\ requests' = [requests EXCEPT
                               ![r].fresh = Len(server.owner) + 1,
                               ![r].refresh_token = Null,
                               ![r].pc = "refresh_ok"]
       ELSE /\ server' = server
            /\ requests' = [requests EXCEPT ![r].refresh_token = Null,
                                            ![r].pc = "refresh_failed"]
    /\ UNCHANGED <<localStorage, authVars, location, chatVars, storeVars,
                   dbVars, ragVars, chunkVars>>

\* the refresh succeeded: the pair is stored and the request is sent again
\* with the new access token
OnRefreshed(r) ==
    /\ requests[r].pc = "refresh_ok"
    /\ localStorage' = StoreTokens(localStorage, requests[r].fresh)
    /\ requests' = [requests EXCEPT
                       ![r].Authorization = <<requests[r].fresh>>,
                       ![r].fresh = 0,
                       ![r].resends = requests[r].resends + 1,
                       ![r].pc = "sent"]
    /\ UNCHANGED <<server, authVars, location, chatVars, storeVars, dbVars,
                   ragVars, chunkVars>>

\* catch (refreshError): the tokens are removed and window.location.href is
\* set to /login
OnRefreshFailed(r) ==
    /\ requests[r].pc = "refresh_failed"
    /\ localStorage' = RemoveTokens(localStorage)
    /\ location' = "/login"
    /\ user' = Null
    /\ loading' = TRUE
    /\ requests' = [q \in Requests |-> NoRequest]
    /\ UNCHANGED <<server, chatVars, storeVars, dbVars, ragVars, chunkVars>>

InitAuth == RagIdle /\ ChunkerIdle /\ RestIdle

NextAuth ==
    \/ login
    \/ logout
    \/ checkAuth
    \/ AccessExpires
    \/ \E r \in Requests :
          \/ Send(r)
          \/ ServerAnswers(r)
          \/ OnResponse(r)
          \/ RefreshAnswers(r)
          \/ OnRefreshed(r)
          \/ OnRefreshFailed(r)

SpecAuth == InitAuth /\ [][NextAuth]_vars

----------------------------------------------------------------------------
(* The web client: ChatInterface in a tab that shows a dashboard, while the *)
(* user signs out and others sign in in another tab of the same browser.   *)
(* Signing out in the tab itself leaves the dashboard and unmounts the     *)
(* component.                                                              *)

\* a user has signed in and the dashboard has mounted ChatInterface: the
\* key and the messages are read from localStorage and the save effect has
\* run
ChatOpen ==
    \E u \in Users :
        /\ server = IssueTokens(NoTokens, u)
        /\ localStorage = SaveHistory(
               [StoreTokens(EmptyStorage, 1) EXCEPT !.user = <<u>>],
               u, defaultMessage)
        /\ user = <<u>>
        /\ loading = FALSE
        /\ location = IF RoleOf(u) = "ADMIN" THEN "/admin" ELSE "/student"
        /\ requests = [r \in Requests |-> NoRequest]
        /\ storageKey = u
        /\ messages = defaultMessage
        /\ chat_pending = {}

\* login in another tab: the tokens and the user in localStorage change,
\* the state of this tab does not
OtherTabLogin ==
    /\ Len(server.owner) < MaxTokens
    /\ \E u \in Users :
          /\ server' = IssueTokens(server, u)
          /\ localStorage' = [StoreTokens(localStorage,
                                           Len(server.owner) + 1)
                                 EXCEPT !.user = <<u>>]
    /\ UNCHANGED <<authVars, location, requests, chatVars, storeVars, dbVars,
                   ragVars, chunkVars>>

\* logout in another tab
OtherTabLogout ==
    /\ localStorage.user # Null
    /\ localStorage' = [RemoveTokens(localStorage) EXCEPT !.user = Null]
    /\ UNCHANGED <<server, authVars, location, requests, chatVars, storeVars,
                   dbVars, ragVars, chunkVars>>

\* checkUserChange, run by the storage event and by the 1-second interval,
\* finds another key: the key and the messages are switched, and the save
\* effect runs
checkUserChange ==
    /\ getStorageKey(localStorage) # storageKey
    /\ storageKey' = getStorageKey(localStorage)
    /\ messages' = SavedMessages(localStorage, getStorageKey(localStorage))
    /\ localStorage' = SaveHistory(localStorage, storageKey', messages')
    /\ UNCHANGED <<server, authVars, location, requests, chat_pending,
                   storeVars, dbVars, ragVars, chunkVars>>

\* sendMessage up to the call of /chat/message, which carries the token of
\* the user stored in localStorage; the input is disabled while a reply is
\* awaited; the save effect runs
sendMessage ==
    /\ chat_pending = {}
    /\ Len(messages) < MaxMessages
    /\ messages' = Append(messages,
                          Message("user", getStorageKey(localStorage)))
    /\ chat_pending' = {getStorageKey(localStorage)}
    /\ localStorage' = SaveHistory(localStorage, storageKey, messages')
    /\ UNCHANGED <<server, authVars, location, requests, storageKey,
                   storeVars, dbVars, ragVars, chunkVars>>

\* the reply, or the failure, of /chat/message arrives: it is appended to
\* the messages the component holds by then, and the save effect runs
ReplyArrives ==
    /\ \E author \in chat_pending :
          messages' = Append(messages, Message("reply", author))
    /\ chat_pending' = {}
    /\ localStorage' = SaveHistory(localStorage, storageKey, messages')
    /\ UNCHANGED <<server, authVars, location, requests, storageKey,
                   storeVars, dbVars, ragVars, chunkVars>>

\* clearHistory
clearHistory ==
    /\ messages # defaultMessage
    /\ messages' = defaultMessage
    /\ localStorage' = SaveHistory(localStorage, storageKey, defaultMessage)
    /\ UNCHANGED <<server, authVars, location, requests, storageKey,
                   chat_pending, storeVars, dbVars, ragVars, chunkVars>>

InitChat == RagIdle /\ ChunkerIdle /\ StoreIdle /\ DbIdle /\ ChatOpen

NextChat ==
    \/ OtherTabLogin
    \/ OtherTabLogout
    \/ checkUserChange
    \/ sendMessage
    \/ ReplyArrives
    \/ clearHistory

SpecChat == InitChat /\ [][NextChat]_vars

----------------------------------------------------------------------------
(* Properties of retrieve, stated on the two ranked lists themselves *)

\* the rank (from 1) a path gave the chunk, 0 when the path did not rank it
RankIn(list, c) ==
    IF \E r \in 1..Len(list) : list[r].chunk_id = c
    THEN CHOOSE r \in 1..Len(list) : list[r].chunk_id = c
    ELSE 0

ChunkSet(list) == {list[r].chunk_id : r \in 1..Len(list)}
Candidates == ChunkSet(dense) \cup ChunkSet(sparse)
Returned == ChunkSet(fused)

\* sum over the paths that ranked c of 1 / (RRF_k + rank), as one fraction
ExpectedScore(c) ==
    LET rd == RankIn(dense, c)
        rs == RankIn(sparse, c)
    IN  IF rd > 0 /\ rs > 0
        THEN Frac((RRF_k + rd) + (RRF_k + rs), (RRF_k + rd) * (RRF_k + rs))
        ELSE IF rd > 0 THEN Frac(1, RRF_k + rd)
        ELSE IF rs > 0 THEN Frac(1, RRF_k + rs)
        ELSE Frac(0, 1)

ExpectedRankSum(c) == RankIn(dense, c) + RankIn(sparse, c)

\* c comes before e in the order the two rankings determine
OrderedBefore(c, e) ==
    \/ FracLess(ExpectedScore(e), ExpectedScore(c))
    \/ /\ FracEq(ExpectedScore(c), ExpectedScore(e))
       /\ \/ ExpectedRankSum(c) < ExpectedRankSum(e)
          \/ ExpectedRankSum(c) = ExpectedRankSum(e) /\ c < e

FirstInBoth(c) == RankIn(dense, c) = 1 /\ RankIn(sparse, c) = 1

\* C1: every chunk ranked by at least one path gets fused_score = the sum,
\* over the paths that ranked it, of 1 / (RRF_k + rank), ranks from 1; a
\* path that did not rank it adds nothing and raw scores play no part.
C1_FusedScoreIsRRF ==
    phase = "retrieved" =>
        LET all == RRFFusion(dense, sparse) IN
        /\ ChunkSet(all) = Candidates
        /\ Len(all) = Cardinality(Candidates)
        /\ \A i \in 1..Len(all) :
              /\ all[i].fused_score.den > 0
              /\ FracEq(all[i].fused_score, ExpectedScore(all[i].chunk_id))
        /\ \A i \in 1..Len(fused) :
              FracEq(fused[i].fused_score, ExpectedScore(fused[i].chunk_id))

\* a result ranked by both paths at different ranks, next to one ranked by
\* a single path, with raw scores that differ between the two paths
C1_Witness ==
    /\ phase = "retrieved"
    /\ \E i, j \in 1..Len(fused) :
          /\ RankIn(dense, fused[i].chunk_id) = 2
          /\ RankIn(sparse, fused[i].chunk_id) = 1
          /\ RankIn(dense, fused[j].chunk_id) = 1
          /\ RankIn(sparse, fused[j].chunk_id) = 0
          /\ dense[1].raw_score # sparse[1].raw_score

\* C2: the list retrieve returns is sorted by non-increasing fused_score.
C2_SortedByFusedScore ==
    phase \in {"retrieved", "grounded", "answered"} =>
        \A i \in 1..(Len(fused) - 1) :
            ~FracLess(fused[i].fused_score, fused[i + 1].fused_score)

\* three results, strictly decreasing scores, led by a chunk that the dense
\* path did not rank first
C2_Witness ==
    /\ phase = "retrieved"
    /\ Len(fused) = 3
    /\ FracLess(fused[2].fused_score, fused[1].fused_score)
    /\ FracLess(fused[3].fused_score, fused[2].fused_score)
    /\ RankIn(dense, fused[1].chunk_id) = 2

C5_TruncatedToKFinal ==
    phase = "retrieved" =>
        /\ error = "none"
        /\ Len(fused) = Min(k_final, Cardinality(Candidates))
        /\ Cardinality(Returned) = Len(fused)
        /\ Returned \subseteq Candidates
        /\ \A i \in 1..Len(fused) : fused[i].fused_rank = i
        /\ \A c \in Returned, e \in Candidates \ Returned : OrderedBefore(c, e)

\* three candidates, two asked for
C5_Witness ==
    /\ phase = "retrieved"
    /\ Cardinality(Candidates) = 3
    /\ k_final = 2
    /\ Len(fused) = 2

----------------------------------------------------------------------------
(* Properties of ground and of the agent *)

Relevances == {fused[i].relevance : i \in 1..Len(fused)}
BestRelevance == CHOOSE m \in Relevances : \A x \in Relevances : x <= m

NothingSurfaced ==
    /\ ctx.context_found = FALSE
    /\ ctx.context_block = <<>>
    /\ DOMAIN ctx.citation_map = {}

\* C6: when the best relevance among the fused results is below the
\* threshold, ground returns context_found = false with an empty context
\* block and an empty citation map, even for a non-empty list;
\* context_found = true only when that maximum reaches the threshold.
C6_GateBelowThreshold ==
    phase \in {"grounded", "answered"} =>
        /\ (fused # <<>> /\ BestRelevance < threshold) => NothingSurfaced
        /\ ctx.context_found => (fused # <<>> /\ BestRelevance >= threshold)
        /\ ~ctx.context_found => NothingSurfaced

\* two results were retrieved, the best of them below the threshold
C6_Witness ==
    /\ phase = "grounded"
    /\ Len(fused) >= 2
    /\ BestRelevance = 1
    /\ threshold = 2
    /\ ~ctx.context_found

\* C7: when neither path returns a candidate, retrieve returns the empty
\* list without error, and ground on it returns context_found = false with
\* an empty block and an empty map, whatever the threshold.
C7_EmptyRetrieval ==
    /\ (phase = "retrieved" /\ dense = <<>> /\ sparse = <<>>) =>
            (fused = <<>> /\ error = "none")
    /\ (phase \in {"grounded", "answered"} /\ fused = <<>>) =>
            (NothingSurfaced /\ error = "none")

\* ground ran on the empty list with the lowest threshold
C7_Witness ==
    /\ phase = "grounded"
    /\ fused = <<>>
    /\ threshold = 0
    /\ ~ctx.context_found

\* C8: with context found over N retained chunks, the tags of the context
\* block are [[CIT_1]] .. [[CIT_N]] in fused rank order, the citation map
\* has exactly these tags as keys, and tag n resolves to the label and page
\* of the chunk at fused rank n.
C8_CitationNumbering ==
    (phase \in {"grounded", "answered"} /\ ctx.context_found) =>
        LET N == Len(fused)
            Expect(n) == "[[CIT_" \o ToString(n) \o "]]"
        IN  /\ Len(ctx.context_block) = N
            /\ \A n \in 1..N :
                  /\ ctx.context_block[n].tag = Expect(n)
                  /\ ctx.context_block[n].text = ChunkTextOf(fused[n].chunk_id)
            /\ DOMAIN ctx.citation_map = {Expect(n) : n \in 1..N}
            /\ Cardinality(DOMAIN ctx.citation_map) = N
            /\ \A n \in 1..N :
                  ctx.citation_map[Expect(n)] =
                      Metadata(fused[n].chunk_id).label \o " (page "
                      \o ToString(Metadata(fused[n].chunk_id).page) \o ")"

\* three chunks cited, from two different pages, not in chunk_id order
C8_Witness ==
    /\ phase = "grounded"
    /\ ctx.context_found
    /\ Len(fused) = 3
    /\ fused[1].chunk_id > fused[2].chunk_id
    /\ ctx.citation_map["[[CIT_1]]"] # ctx.citation_map["[[CIT_3]]"]

\* C9: the LLM is never called for a query whose ground result has
\* context_found = false: the agent answers with the fixed message, and a
\* generation step happens only from a ground result with context found.
C9_NoGenerationWithoutContext ==
    /\ [](llm_calls > 0 => (phase = "answered" /\ ctx.context_found))
    /\ []((phase = "answered" /\ ~ctx.context_found) =>
              (answer = NotFoundMessage /\ llm_calls = 0))
    /\ [][llm_calls' > llm_calls =>
              (phase = "grounded" /\ ctx.context_found)]_vars
    /\ [][(phase = "grounded" /\ ~ctx.context_found) =>
              (llm_calls' = llm_calls /\ answer' \in {answer, NotFoundMessage})]_vars

\* a query with retrieved chunks, none relevant enough, answered "not found"
C9_Witness ==
    /\ phase = "answered"
    /\ fused # <<>>
    /\ ~ctx.context_found
    /\ answer = NotFoundMessage
    /\ llm_calls = 0

----------------------------------------------------------------------------
(* Properties of the chunker *)

\* C10: for a non-empty text and 0 <= overlap < chunk_size the chunker
\* yields a non-empty sequence of non-empty chunks, the first starting at
\* offset 0, the last ending at the end of the text, each starting at or
\* before the end of its predecessor, so that every character is covered.
C10_ChunksCoverText ==
    cpc = "done" =>
        /\ text # <<>>
        /\ overlap >= 0 /\ overlap < chunk_size
        /\ Len(chunks) >= 1
        /\ \A i \in 1..Len(chunks) :
              /\ chunks[i].char_offset_start < chunks[i].char_offset_end
              /\ chunks[i].char_offset_end - chunks[i].char_offset_start
                    <= chunk_size
              /\ chunks[i].text # <<>>
              /\ chunks[i].text =
                    [p \in 1..(chunks[i].char_offset_end
                               - chunks[i].char_offset_start) |->
                        text[chunks[i].char_offset_start + p]]
        /\ chunks[1].char_offset_start = 0
        /\ chunks[Len(chunks)].char_offset_end = Len(text)
        /\ \A i \in 1..(Len(chunks) - 1) :
              /\ chunks[i].char_offset_start < chunks[i + 1].char_offset_start
              /\ chunks[i + 1].char_offset_start <= chunks[i].char_offset_end
        /\ \A p \in 1..Len(text) :
              \E i \in 1..Len(chunks) :
                  /\ chunks[i].char_offset_start < p
                  /\ p <= chunks[i].char_offset_end

\* three or more chunks with overlap, one cut short at a sentence boundary
\* and the last one shorter than chunk_size
C10_Witness ==
    /\ cpc = "done"
    /\ overlap > 0
    /\ Len(chunks) >= 3
    /\ \E i \in 1..(Len(chunks) - 1) :
          chunks[i].char_offset_end - chunks[i].char_offset_start < chunk_size
    /\ chunks[Len(chunks)].char_offset_end
          - chunks[Len(chunks)].char_offset_start < chunk_size

----------------------------------------------------------------------------
(* Index store, index build, engine *)

\* C11: load(save(bundle)) gives the bundle back: the same chunks in the same
\* order, the same vector at every position and the same sparse statistics
\* (and the same metadata rows), for every bundle a build has published.
C11_SaveLoadRoundTrip ==
    \A c \in Corpora :
        (c # <<>> /\ disk = save(BuildBundle(c))) =>
            /\ load(disk).ok
            /\ load(disk).bundle.chunks = BuildBundle(c).chunks
            /\ \A i \in 1..Len(c) :
                  load(disk).bundle.vectors[i] = BuildBundle(c).vectors[i]
            /\ Len(load(disk).bundle.vectors) = Len(c)
            /\ load(disk).bundle.bm25 = BuildBundle(c).bm25
            /\ load(disk).bundle.metadata = BuildBundle(c).metadata

\* the engine has loaded the saved bundle of two chunks, second chunk first
C11_Witness ==
    /\ loaded
    /\ ~tampered
    /\ disk = save(BuildBundle(<<2, 1>>))
    /\ current = BuildBundle(<<2, 1>>)

\* C12: a rebuild is all-or-nothing. A build that fails (IndexBuildError on
\* an empty chunk set, EmbeddingError when the embedding fails) changes
\* nothing on disk, and the on-disk bundle changes only in the one step that
\* swaps in the complete result of a build that succeeded.
C12_RebuildAllOrNothing ==
    [][/\ (bpc' = "failed" \/ bpc = "failed") => disk' = disk
       /\ disk' # disk =>
             /\ bpc = "staged"
             /\ build_error = "none"
             /\ disk' = save(BuildBundle(corpus))
             /\ load(disk').ok]_vars

\* a build failed on its embeddings while an earlier bundle is on disk
C12_Witness ==
    /\ bpc = "failed"
    /\ build_error = "EmbeddingError"
    /\ \E c \in Corpora : Len(c) = 2 /\ disk = save(BuildBundle(c))

\* what the running query has read so far comes from the bundle it took
ReadsFrom(b) ==
    /\ q_read.dense \in {<<>>, <<b.vectors>>}
    /\ q_read.sparse \in {<<>>, <<b.bm25>>}
    /\ q_read.chunks \in {<<>>, <<b.chunks>>}
    /\ q_read.metadata \in {<<>>, <<b.metadata>>}

\* C13: a query that runs while the engine reloads reads its four artifacts
\* (dense structure, sparse structure, chunk table, metadata table) from one
\* bundle, and that bundle is the one that was current when it started.
C13_QueryReadsOneBundle ==
    /\ [](q_pc # "idle" => ReadsFrom(q_bundle))
    /\ [][(q_pc = "idle" /\ q_pc' # "idle") =>
              (loaded /\ q_bundle' = current)]_vars
    /\ [][(q_pc # "idle" /\ q_pc' # "idle") => q_bundle' = q_bundle]_vars

\* a query read all four artifacts although the engine reloaded meanwhile
C13_Witness ==
    /\ q_pc = "done"
    /\ loaded
    /\ current # q_bundle
    /\ q_read.dense = <<q_bundle.vectors>>
    /\ q_read.metadata = <<q_bundle.metadata>>
    /\ Len(q_bundle.chunks) = 2

\* C14: every bundle that is published or loaded is internally consistent:
\* as many dense vectors as sparse entries as chunk rows as metadata rows,
\* and position i of each of them describes the same chunk.
C14_BundleConsistent ==
    /\ loaded => (Consistent(current) /\ current # NoBundle)
    /\ q_pc # "idle" => Consistent(q_bundle)
    /\ (disk # NoFiles /\ ~tampered) =>
          \E c \in Corpora :
              /\ c # <<>>
              /\ disk = save(BuildBundle(c))
              /\ Consistent(BuildBundle(c))

\* a bundle of two chunks was loaded and is served; the chunks.pkl on disk
\* has lost a row since
C14_Witness ==
    /\ loaded
    /\ Len(current.chunks) = 2
    /\ tampered
    /\ disk = StaleChunks(save(current))

\* C15: the engine never falls back to one retrieval path. Loading a
\* missing, corrupt or stale-version bundle ends in IndexLoadError and the
\* engine serves nothing; a dense or sparse search that fails ends the query
\* with RetrievalError and without results; results always come from both
\* paths; an error is never the no-context outcome.
C15_NoSilentDegradation ==
    /\ [](load_error = "IndexLoadError" => (~loaded /\ current = NoBundle))
    /\ [](q_pc = "failed" => q_error = "RetrievalError")
    /\ [](q_error # "none" =>
            (q_pc = "failed" /\ q_read.chunks = <<>> /\ q_read.metadata = <<>>))
    /\ [](q_pc = "done" =>
            (q_error = "none" /\ q_read.dense # <<>> /\ q_read.sparse # <<>>))
    /\ [][(q_pc = "idle" /\ q_pc' # "idle") => loaded]_vars
    /\ [][((tampered \/ disk = NoFiles) /\ disk' = disk
             /\ <<loaded, load_error, current>>' # <<loaded, load_error, current>>)
           => (~loaded' /\ load_error' = "IndexLoadError")]_vars

\* a reload of stale-version files was refused, and the query that was in
\* flight ended with the error of its sparse search
C15_Witness ==
    /\ load_error = "IndexLoadError"
    /\ ~loaded
    /\ disk.version = FORMAT_VERSION - 1
    /\ q_pc = "failed"
    /\ q_error = "RetrievalError"
    /\ q_read.dense # <<>>

----------------------------------------------------------------------------
(* Database triggers *)

C17_AtMostThreeConcurrently ==
    \A u \in Users : VehicleCount(vehicles, u) <= 3

ActiveSubscriptions(u) ==
    {r \in subscriptions : r.user_id = u /\ r.is_active = <<1>>}

\* C18: a user has at most one subscription row with is_active = 1, and an
\* INSERT of an active row makes the new row the user's only active one:
\* the rows of that user that were active have is_active NULL afterwards.
C18_OneActiveSubscription ==
    /\ \A u \in Users : Cardinality(ActiveSubscriptions(u)) <= 1
    /\ (db_last.table = "subscriptions" /\ db_last.op = "insert"
          /\ db_last.is_active = <<1>>) =>
            /\ db_last.error = "none"
            /\ Cardinality(ActiveSubscriptions(db_last.user_id)) = 1

ActiveAssignments(u) ==
    {r \in slot_assignments : r.user_id = u /\ r.is_active = <<1>>}

\* C19: a user has at most one slot assignment with is_active = 1, and an
\* INSERT of an active assignment makes it the user's only active one: the
\* assignment that was active is inactive and released and its slot is
\* available again, and the slot of the new assignment is not available.
C19_OneActiveAssignment ==
    /\ \A u \in Users : Cardinality(ActiveAssignments(u)) <= 1
    /\ (db_last.table = "slot_assignments" /\ db_last.op = "insert"
          /\ db_last.is_active = <<1>>) =>
            /\ db_last.error = "none"
            /\ \E r \in slot_assignments :
                  /\ ActiveAssignments(db_last.user_id) = {r}
                  /\ r.slot_id = db_last.slot_id
            /\ slots[db_last.slot_id] = FALSE
            /\ \A r \in slot_assignments :
                  (r.user_id = db_last.user_id /\ r.released) =>
                      /\ r.is_active = SqlNull
                      /\ (r.slot_id # db_last.slot_id => slots[r.slot_id])

C22_DeletedStudentFreesSlot ==
    (db_last.table = "users" /\ db_last.op = "delete") =>
        /\ ~ \E r \in vehicles : r.user_id = db_last.user_id
        /\ ~ \E r \in slot_assignments : r.user_id = db_last.user_id
        /\ (/\ db_last.slot_id # 0
            /\ ~ \E r \in slot_assignments :
                    r.slot_id = db_last.slot_id /\ r.is_active = <<1>>)
           => slots[db_last.slot_id] = TRUE

\* C26: after any sequence of INSERTs of slot assignments and deletions of
\* users, from tables in which availability matches the assignments, a slot
\* has is_available = FALSE exactly when an active assignment references it.
C26_AvailabilityMatchesAssignments ==
    \A s \in Slots :
        (slots[s] = FALSE) <=>
            (\E r \in slot_assignments :
                 r.slot_id = s /\ r.is_active = <<1>>)

\* C23: ProtectedRoute renders the Outlet only when loading is false, a user
\* is present and allowedRoles is empty or includes the user's role; while
\* loading it renders the spinner; without a user it redirects to /login;
\* with a wrong role it redirects to /admin for an ADMIN and to /student
\* otherwise.  So the page of /student is rendered to a STUDENT only and the
\* page of /admin to an ADMIN only.
C23_ProtectedRoute ==
    /\ \A allowedRoles \in SUBSET Roles, ld \in BOOLEAN,
          usr \in {Null} \cup {<<u>> : u \in Users} :
          LET r == ProtectedRoute(allowedRoles, usr, ld)
              permitted == /\ usr # Null
                           /\ \/ allowedRoles = {}
                              \/ RoleOf(usr[1]) \in allowedRoles
          IN /\ (r.element = "Outlet") <=> (~ld /\ permitted)
             /\ ld => r.element = "spinner"
             /\ (~ld /\ usr = Null) =>
                    (r.element = "Navigate" /\ r.to = "/login")
             /\ (~ld /\ usr # Null /\ ~permitted) =>
                    /\ r.element = "Navigate"
                    /\ r.to = IF RoleOf(usr[1]) = "ADMIN" THEN "/admin"
                                                          ELSE "/student"
    /\ LET v == View(location, user, loading)
       IN /\ v.element = "StudentDashboard" =>
                (~loading /\ user # Null /\ RoleOf(user[1]) = "STUDENT")
          /\ v.element = "AdminDashboard" =>
                (~loading /\ user # Null /\ RoleOf(user[1]) = "ADMIN")

\* a signed-in STUDENT is at /admin and is being redirected to /student
C23_Witness ==
    /\ ~loading
    /\ user # Null
    /\ RoleOf(user[1]) = "STUDENT"
    /\ location = "/admin"
    /\ View(location, user, loading) =
          Rendering("Navigate", "/student", TRUE)

InFlight(req) == req.pc \notin {"idle", "resolved", "rejected"}

\* the steps the interceptor cycle of a request can still take at most
StepsLeft(req) ==
    CASE req.pc = "sent" -> IF req.retry THEN 2 ELSE 6
      [] req.pc = "responded" -> IF req.retry THEN 1 ELSE 5
      [] req.pc = "refreshing" -> 4
      [] req.pc \in {"refresh_ok", "refresh_failed"} -> 3
      [] OTHER -> 0

\* C24: for each original request the interceptor performs at most one token
\* refresh and at most one re-send.  A 401 on a request not marked _retry,
\* with a refresh token stored, starts one refresh, and its success one
\* re-send with the new access token; a request marked _retry that gets 401
\* again is rejected without a refresh.  Every step of the cycle of a request
\* lowers the number of steps left to it, so the cycle terminates.
C24_OneRefreshOneRetry ==
    /\ [](\A r \in Requests :
            requests[r].refreshes <= 1 /\ requests[r].resends <= 1)
    /\ [][\A r \in Requests :
            (InFlight(requests[r]) /\ requests'[r] # requests[r]) =>
                StepsLeft(requests'[r]) < StepsLeft(requests[r])]_vars
    /\ [][\A r \in Requests :
            (/\ requests[r].pc = "responded"
             /\ requests[r].status = 401
             /\ ~requests[r].retry
             /\ localStorage.refresh_token # Null
             /\ requests'[r] # requests[r]
             /\ requests'[r].pc # "idle") =>
                /\ requests'[r].pc = "refreshing"
                /\ requests'[r].refreshes = 1]_vars
    /\ [][\A r \in Requests :
            (/\ requests[r].pc = "refresh_ok"
             /\ requests'[r] # requests[r]
             /\ requests'[r].pc # "idle") =>
                /\ requests'[r].pc = "sent"
                /\ requests'[r].resends = 1
                /\ requests'[r].Authorization = <<requests[r].fresh>>]_vars
    /\ [][\A r \in Requests :
            (/\ requests[r].pc = "responded"
             /\ requests[r].status = 401
             /\ requests[r].retry
             /\ requests'[r] # requests[r]
             /\ requests'[r].pc # "idle") =>
                /\ requests'[r].pc = "rejected"
                /\ requests'[r].refreshes = requests[r].refreshes
                /\ server' = server
                /\ localStorage' = localStorage]_vars

\* a request was refreshed and re-sent once, got 401 again and was rejected
C24_Witness ==
    \E r \in Requests :
        /\ requests[r].pc = "rejected"
        /\ requests[r].retry
        /\ requests[r].status = 401
        /\ requests[r].refreshes = 1
        /\ requests[r].resends = 1

\* C27: after any sequence of logins, logouts, failed refreshes and 401s
\* without a refresh token, whenever localStorage holds no access_token it
\* holds no 'user' entry either.
C27_UserClearedWithTokens ==
    localStorage.access_token = Null => localStorage.user = Null

\* C28: with several requests in flight that get 401 for the same expired
\* access token and a server that rotates refresh tokens, the session
\* survives: no step other than a logout removes the stored tokens or sends
\* the browser to /login.
C28_SessionSurvivesParallelRefresh ==
    [][(localStorage.refresh_token # Null /\ localStorage'.user # Null) =>
          /\ localStorage'.access_token # Null
          /\ localStorage'.refresh_token # Null
          /\ ~(loading' /\ ~loading)]_vars

\* C25: chat histories are separate per user: after any interleaving of
\* changes of the user stored in localStorage, submissions, arrivals of
\* replies and runs of the user-change check, the history stored under the
\* key of a user holds, besides the greeting, only messages that user
\* submitted and the replies to them.
C25_HistoriesSeparate ==
    \A k \in Users :
        localStorage.chat_history[k] # Null =>
            \A i \in 1..Len(localStorage.chat_history[k][1]) :
                LET m == localStorage.chat_history[k][1][i]
                IN m.kind = "default" \/ m.of = k


====
